---- MODULE Spec2Model ----
(***************************************************************************)
(* Model of backend/app/services/gemini_service.py: the GeminiService      *)
(* singleton, its construction from GEMINI_API_KEY, and its two coroutines *)
(* generate_response and generate_chat_title around the blocking remote    *)
(* call model.generate_content issued through asyncio.to_thread.           *)
(*                                                                         *)
(* A text is a sequence of one-character strings.  The five persona        *)
(* paragraphs, the title instruction and the two apology sentences are     *)
(* fixed literals that the code never inspects; each is carried as one     *)
(* element of the sequence holding its wording.                            *)
(***************************************************************************)
EXTENDS Integers, Sequences, FiniteSets

VARIABLES
    environ,    \* GEMINI_API_KEY as config() finds it: [defined, value]
    service,    \* the module-level gemini_service: construction state and fields
    calls       \* the coroutine frames: arguments, locals, future, outcome

vars == <<environ, service, calls>>

----------------------------------------------------------------------------
(* Bounds of the model                                                     *)

\* longest conversation history a caller passes
MaxHist == 12
\* most repetitions of a block in a remote title text
MaxRep == 18
\* concurrent calls in flight in SpecConc
NumCalls == 2

(* Program constants                                                       *)

\* conversation_history[-10:]
HistoryWindow == 10
\* title[:50]
TitleLimit == 50

----------------------------------------------------------------------------
(* Text primitives: str.strip, str.replace(ch, ''), slicing                *)

Whitespace == {" ", "\n", "\t"}

RECURSIVE LStrip(_)
LStrip(s) == IF s # <<>> /\ Head(s) \in Whitespace THEN LStrip(Tail(s)) ELSE s

RECURSIVE RStrip(_)
RStrip(s) ==
    IF s # <<>> /\ s[Len(s)] \in Whitespace
    THEN RStrip(SubSeq(s, 1, Len(s) - 1))
    ELSE s

\* str.strip()
Strip(s) == RStrip(LStrip(s))

\* str.replace(ch, '')
RemoveChar(s, ch) == SelectSeq(s, LAMBDA x : x # ch)

\* s[:n]
Prefix(s, n) == SubSeq(s, 1, IF Len(s) < n THEN Len(s) ELSE n)

\* s[-n:]
Suffix(s, n) == SubSeq(s, IF Len(s) > n THEN Len(s) - n + 1 ELSE 1, Len(s))

\* bool(x) of a text or list: empty is falsy
Truthy(s) == s # <<>>

----------------------------------------------------------------------------
(* Literals of the source                                                  *)

Placeholder == "your_gemini_api_key_here"

UserRole == <<"U", "s", "e", "r">>
AssistantRole == <<"A", "s", "s", "i", "s", "t", "a", "n", "t">>
NL == <<"\n">>

\* the persona paragraphs of mood_prompts (pictographs left out)
mood_prompts ==
    [default |-> <<"You are a helpful, friendly, and balanced AI assistant. You provide clear, accurate, and well-structured responses while maintaining a warm and approachable tone. You adapt your communication style to the user's needs, being comprehensive when detail is needed and concise when brevity is preferred. You're knowledgeable, reliable, and always aim to be genuinely helpful.">>,
     funny |-> <<"You are a hilarious AI assistant with a great sense of humor! You love making people laugh with witty jokes, puns, and funny observations. Keep your responses entertaining while still being helpful. Use emojis, wordplay, and light-hearted humor. Make conversations enjoyable and memorable! Don't be afraid to be silly and playful.">>,
     roasting |-> <<"You are a witty AI with a sharp tongue and a talent for playful roasting! You deliver clever burns and sarcastic remarks while keeping things fun and not mean-spirited. Your responses should be witty, a bit cheeky, and entertainingly sassy. Roast users playfully while still being helpful. Keep it fun, not hurtful! Think friendly banter, not actual insults.">>,
     precise |-> <<"You are a precise, efficient AI assistant. You provide clear, direct, and concise answers. You focus on accuracy and getting straight to the point without unnecessary fluff. Your responses are well-structured, factual, and exactly what the user needs to know. Be professional and informative.">>,
     intellectual |-> <<"You are a highly intellectual AI with deep knowledge across many fields. You provide thoughtful, analytical responses that explore topics in depth. You enjoy philosophical discussions, complex problem-solving, and sharing insights. Your responses demonstrate critical thinking, nuanced understanding, and scholarly depth. Reference relevant theories, concepts, and expert perspectives when appropriate.">>]

EmptyFallback == <<"I apologize, but I couldn't generate a response at the moment. Please try again.">>
ErrorFallback == <<"I'm sorry, but I encountered an error while processing your request. Please try again later.">>
NewConversation == <<"N", "e", "w", " ", "C", "o", "n", "v", "e", "r", "s", "a", "t", "i", "o", "n">>

TitleInstructionHead == <<"Generate a short, descriptive title (3-6 words) for a conversation that starts with this message: ", "\"">>
TitleInstructionTail == <<"\"", "\n", "\n", "            The title should capture the main topic or theme. Return only the title, no additional text.">>

----------------------------------------------------------------------------
(* GeminiService.__init__                                                  *)

generation_config ==
    [temperature |-> "0.7", top_p |-> "0.8", top_k |-> 40, max_output_tokens |-> 2048]

safety_settings ==
    << [category |-> "HARM_CATEGORY_HARASSMENT", threshold |-> "BLOCK_MEDIUM_AND_ABOVE"],
       [category |-> "HARM_CATEGORY_HATE_SPEECH", threshold |-> "BLOCK_MEDIUM_AND_ABOVE"],
       [category |-> "HARM_CATEGORY_SEXUALLY_EXPLICIT", threshold |-> "BLOCK_MEDIUM_AND_ABOVE"],
       [category |-> "HARM_CATEGORY_DANGEROUS_CONTENT", threshold |-> "BLOCK_MEDIUM_AND_ABOVE"] >>

\* the module before `gemini_service = GeminiService()` has run
Unloaded ==
    [state |-> "unloaded", error |-> "none", api_key |-> "", configured |-> FALSE,
     generation_config |-> [temperature |-> "", top_p |-> "", top_k |-> 0, max_output_tokens |-> 0],
     safety_settings |-> <<>>, model_name |-> ""]

\* a constructor that raised: nothing after the raise has run
Failed(error, key) == [Unloaded EXCEPT !.state = "failed", !.error = error, !.api_key = key]

\* seeded fault: the guard without the placeholder comparison
KeyRejectedEmptyOnly(key) == key = ""

\* `not self.api_key or self.api_key == "your_gemini_api_key_here"`
KeyRejected(key) == key = "" \/ key = Placeholder

\* the value of GeminiService() for a given environment: config("GEMINI_API_KEY")
\* has no default and raises UndefinedValueError when the variable is undefined
Constructed(env) ==
    IF ~env.defined THEN Failed("UndefinedValueError", "")
    ELSE IF KeyRejected(env.value) THEN Failed("ValueError", env.value)
    ELSE [state |-> "ready", error |-> "none", api_key |-> env.value, configured |-> TRUE,
          generation_config |-> generation_config,
          safety_settings |-> safety_settings,
          model_name |-> "gemini-2.5-flash"]

----------------------------------------------------------------------------
(* generate_response: lines 67-95, up to the await                         *)

\* dict.get(key, default) on a history entry
Get(msg, key, default) == IF key \in DOMAIN msg THEN msg[key] ELSE default

\* seeded fault: every mood gets the default persona
system_prompt_always_default(mood) == mood_prompts["default"]

\* mood_prompts.get(mood, mood_prompts["default"])
system_prompt(mood) ==
    IF mood \in DOMAIN mood_prompts THEN mood_prompts[mood] ELSE mood_prompts["default"]

\* role = "User" if msg.get("is_user_message") else "Assistant"
role(msg) == IF Get(msg, "is_user_message", FALSE) THEN UserRole ELSE AssistantRole

\* f"{role}: {msg.get('content', '')}\n"
context_line(msg) == role(msg) \o <<":", " ">> \o Get(msg, "content", <<>>) \o NL

\* the for loop: context += line, entry by entry
RECURSIVE render(_)
render(turns) ==
    IF turns = <<>> THEN <<>> ELSE context_line(Head(turns)) \o render(Tail(turns))

\* seeded fault: the first ten entries instead of the last ten
context_first_window(history) ==
    IF history.given /\ Truthy(history.turns)
    THEN render(Prefix(history.turns, HistoryWindow))
    ELSE <<>>

\* context = ""; if conversation_history: for msg in conversation_history[-10:]: ...
context(history) ==
    IF history.given /\ Truthy(history.turns)
    THEN render(Suffix(history.turns, HistoryWindow))
    ELSE <<>>

\* seeded fault: the history section is written even when the context is empty
full_prompt_always_history(message, history, mood) ==
    system_prompt(mood) \o NL \o NL
        \o <<"C", "o", "n", "v", "e", "r", "s", "a", "t", "i", "o", "n", " ",
             "h", "i", "s", "t", "o", "r", "y", ":">> \o NL
        \o context(history) \o NL
        \o <<"U", "s", "e", "r", ":", " ">> \o message \o NL
        \o <<"A", "s", "s", "i", "s", "t", "a", "n", "t", ":">>

\* f"{system_prompt}\n\nConversation history:\n{context}\nUser: {message}\nAssistant:"
\* or, with an empty context, f"{system_prompt}\n\nUser: {message}\nAssistant:"
full_prompt(message, history, mood) ==
    IF Truthy(context(history))
    THEN system_prompt(mood) \o NL \o NL
            \o <<"C", "o", "n", "v", "e", "r", "s", "a", "t", "i", "o", "n", " ",
                 "h", "i", "s", "t", "o", "r", "y", ":">> \o NL
            \o context(history) \o NL
            \o <<"U", "s", "e", "r", ":", " ">> \o message \o NL
            \o <<"A", "s", "s", "i", "s", "t", "a", "n", "t", ":">>
    ELSE system_prompt(mood) \o NL \o NL
            \o <<"U", "s", "e", "r", ":", " ">> \o message \o NL
            \o <<"A", "s", "s", "i", "s", "t", "a", "n", "t", ":">>

\* the prompt of generate_chat_title
title_prompt(first_message) ==
    TitleInstructionHead \o first_message \o TitleInstructionTail

----------------------------------------------------------------------------
(* The remote call and what the coroutine does with its outcome            *)

\* the future of asyncio.to_thread before the worker thread has finished
Pending == [kind |-> "pending", exc |-> "none", text |-> <<>>]
\* model.generate_content raised exc
Raises(exc) == [kind |-> "raise", exc |-> exc, text |-> <<>>]
\* a response without a usable part (blocked prompt, filtered candidate):
\* reading response.text raises ValueError
Blocked == [kind |-> "blocked", exc |-> "none", text |-> <<>>]
\* a response whose text is None
NoText == [kind |-> "none", exc |-> "none", text |-> <<>>]
\* a response whose text is t
Text(t) == [kind |-> "text", exc |-> "none", text |-> t]

\* the classes the remote client raises; all derive from Exception
RemoteErrors ==
    {"ServiceUnavailable", "PermissionDenied", "ResourceExhausted", "DeadlineExceeded"}

ExceptionSubclasses == RemoteErrors \cup {"ValueError"}

\* seeded fault: an except clause that names ValueError only
CatchesValueErrorOnly(exc) == exc = "ValueError"

\* `except Exception`
Catches(exc) == exc \in ExceptionSubclasses

\* how a coroutine ends: a returned text, or an exception leaving it
Returned(text) == [pc |-> "done", result |-> text, raised |-> "none"]
Propagated(exc) == [pc |-> "raised", result |-> <<>>, raised |-> exc]

\* lines 98-107: the await and the branch on response.text
generate_response_try(response) ==
    IF response.kind = "raise" THEN Propagated(response.exc)
    ELSE IF response.kind = "blocked" THEN Propagated("ValueError")
    ELSE IF response.kind = "text" /\ Truthy(response.text)
         THEN Returned(Strip(response.text))
         ELSE Returned(EmptyFallback)

\* lines 109-111
generate_response_except(outcome) ==
    IF outcome.raised # "none" /\ Catches(outcome.raised)
    THEN Returned(ErrorFallback)
    ELSE outcome

\* seeded fault: truncation forgotten
title_untruncated(text) == RemoveChar(RemoveChar(Strip(text), "\""), "'")

\* lines 134-135: response.text.strip().replace('"', '').replace("'", "")[:50]
title(text) == Prefix(RemoveChar(RemoveChar(Strip(text), "\""), "'"), TitleLimit)

\* lines 128-137
generate_chat_title_try(response) ==
    IF response.kind = "raise" THEN Propagated(response.exc)
    ELSE IF response.kind = "blocked" THEN Propagated("ValueError")
    ELSE IF response.kind = "text" /\ Truthy(response.text)
         THEN Returned(title(response.text))
         ELSE Returned(NewConversation)

\* lines 139-141
generate_chat_title_except(outcome) ==
    IF outcome.raised # "none" /\ Catches(outcome.raised)
    THEN Returned(NewConversation)
    ELSE outcome

----------------------------------------------------------------------------
(* Inputs                                                                  *)

\* GEMINI_API_KEY in the environment / .env file
Environments ==
    {[defined |-> FALSE, value |-> ""],
     [defined |-> TRUE, value |-> ""],
     [defined |-> TRUE, value |-> Placeholder],
     [defined |-> TRUE, value |-> "AIzaSy-key"]}

Letters == <<"a", "b", "c", "d", "e", "f", "g", "h", "i", "j", "k", "l", "m",
             "n", "o", "p", "q", "r", "s", "t", "u", "v", "w", "x", "y", "z">>

\* n turns with pairwise distinct contents, speakers alternating
Turns(n, userFirst) ==
    [i \in 1..n |->
        [is_user_message |-> ((i % 2 = 1) = userFirst),
         content |-> <<Letters[((i - 1) % Len(Letters)) + 1]>>]]

\* conversation_history = None
NoHistory == [given |-> FALSE, turns |-> <<>>]
Given(turns) == [given |-> TRUE, turns |-> turns]

\* [{user, "A"}, {assistant, "B"}]
HistoryAB ==
    Given(<< [is_user_message |-> TRUE, content |-> <<"A">>],
             [is_user_message |-> FALSE, content |-> <<"B">>] >>)

\* entries that lack a key
HistorySparse ==
    Given(<< [content |-> <<"q">>], [is_user_message |-> TRUE] >>)

Histories ==
    {NoHistory, HistoryAB, HistorySparse}
        \cup {Given(Turns(n, u)) : n \in 0..MaxHist, u \in BOOLEAN}

Messages == {<<"H", "i">>, <<>>}

Moods == {"default", "funny", "roasting", "precise", "intellectual",
          "sad", "Funny", ""}

\* what the remote may answer to a reply prompt
ReplyTexts ==
    {<<>>, <<" ">>, <<"o", "k">>, <<" ", "o", " ", "k", "\n">>, <<"\t", "\"", "o", "'", " ">>}

Repeat(block, n) == [i \in 1..(n * Len(block)) |-> block[((i - 1) % Len(block)) + 1]]

Blocks == {<<"x", "y", "z">>, <<"a", " ", "b", "'">>, <<"\"", "T", "\"">>}

\* what the remote may answer to a title prompt: padded repetitions of a block
TitleTexts ==
    {lead \o Repeat(block, n) \o trail :
        lead \in {<<>>, <<" ">>}, trail \in {<<>>, <<"\n">>},
        block \in Blocks, n \in 0..MaxRep}

Failures == {Raises(e) : e \in RemoteErrors} \cup {Blocked}

ReplyOutcomes == Failures \cup {NoText} \cup {Text(t) : t \in ReplyTexts}
TitleOutcomes == Failures \cup {NoText} \cup {Text(t) : t \in TitleTexts}

\* the smaller input sets of the concurrent specification
ConcHistories == {NoHistory, HistoryAB}
ConcMoods == {"default", "funny"}
ConcReplyOutcomes == {Raises("ServiceUnavailable"), Blocked, Text(<<>>), Text(<<" ", "o", "k">>)}
ConcTitleOutcomes == {Raises("ResourceExhausted"), NoText, Text(<<"\"", "T", "\"", " ">>)}

----------------------------------------------------------------------------
(* State                                                                   *)

\* a coroutine that has not been called
IdleCall ==
    [pc |-> "idle", op |-> "none", message |-> <<>>, history |-> NoHistory, mood |-> "",
     context |-> <<>>, prompt |-> <<>>, requests |-> <<>>, future |-> Pending,
     response |-> Pending, result |-> <<>>, raised |-> "none"]

\* lines 67-101: the prompt is built and handed to asyncio.to_thread
generate_response_call(call, message, history, mood) ==
    [call EXCEPT !.pc = "awaiting", !.op = "reply",
                 !.message = message, !.history = history, !.mood = mood,
                 !.context = context(history),
                 !.prompt = full_prompt(message, history, mood),
                 !.requests = Append(@, full_prompt(message, history, mood))]

\* lines 123-131
generate_chat_title_call(call, first_message) ==
    [call EXCEPT !.pc = "awaiting", !.op = "title", !.message = first_message,
                 !.prompt = title_prompt(first_message),
                 !.requests = Append(@, title_prompt(first_message))]

\* seeded fault: the coroutine picks up whichever future has finished
awaited_any(cs, c) ==
    LET finished == {d \in DOMAIN cs : cs[d].pc = "awaiting" /\ cs[d].future.kind # "pending"}
    IN  cs[CHOOSE d \in finished : \A e \in finished : d <= e].future

\* `response = await asyncio.to_thread(...)`: the coroutine gets its own future
awaited(cs, c) == cs[c].future

\* a coroutine ending with outcome o
Complete(call, response, o) ==
    [call EXCEPT !.response = response, !.pc = o.pc, !.result = o.result, !.raised = o.raised]

\* seeded fault: a failed remote call is issued a second time
generate_response_retrying(call, response) ==
    IF response.kind = "raise" /\ Len(call.requests) < 2
    THEN [call EXCEPT !.requests = Append(@, call.prompt), !.future = Pending]
    ELSE Complete(call, response, generate_response_except(generate_response_try(response)))

\* lines 98-111 from the resumption on
generate_response_resume(call, response) ==
    Complete(call, response, generate_response_except(generate_response_try(response)))

\* lines 128-141 from the resumption on
generate_chat_title_resume(call, response) ==
    Complete(call, response, generate_chat_title_except(generate_chat_title_try(response)))

----------------------------------------------------------------------------
(* Actions                                                                 *)

\* line 144: gemini_service = GeminiService()
Construct ==
    /\ service.state = "unloaded"
    /\ service' = Constructed(environ)
    /\ UNCHANGED <<environ, calls>>

GenerateResponse(c, messages, histories, moods) ==
    /\ service.state = "ready"
    /\ calls[c].pc = "idle"
    /\ \E message \in messages, history \in histories, mood \in moods :
          calls' = [calls EXCEPT ![c] = generate_response_call(@, message, history, mood)]
    /\ UNCHANGED <<environ, service>>

GenerateChatTitle(c, messages) ==
    /\ service.state = "ready"
    /\ calls[c].pc = "idle"
    /\ \E first_message \in messages :
          calls' = [calls EXCEPT ![c] = generate_chat_title_call(@, first_message)]
    /\ UNCHANGED <<environ, service>>

\* the worker thread running model.generate_content finishes
RemoteCompletes(c, replies, titles) ==
    /\ calls[c].pc = "awaiting"
    /\ calls[c].future = Pending
    /\ \E outcome \in (IF calls[c].op = "reply" THEN replies ELSE titles) :
          calls' = [calls EXCEPT ![c].future = outcome]
    /\ UNCHANGED <<environ, service>>

\* the event loop resumes generate_response
ResumeGenerateResponse(c) ==
    /\ calls[c].pc = "awaiting"
    /\ calls[c].op = "reply"
    /\ calls[c].future # Pending
    /\ calls' = [calls EXCEPT ![c] = generate_response_resume(@, awaited(calls, c))]
    /\ UNCHANGED <<environ, service>>

\* the event loop resumes generate_chat_title
ResumeGenerateChatTitle(c) ==
    /\ calls[c].pc = "awaiting"
    /\ calls[c].op = "title"
    /\ calls[c].future # Pending
    /\ calls' = [calls EXCEPT ![c] = generate_chat_title_resume(@, awaited(calls, c))]
    /\ UNCHANGED <<environ, service>>

----------------------------------------------------------------------------
(* Specifications                                                          *)

\* one call, over the full input sets
Init ==
    /\ environ \in Environments
    /\ service = Unloaded
    /\ calls = [c \in 1..1 |-> IdleCall]

Next ==
    \/ Construct
    \/ \E c \in DOMAIN calls : GenerateResponse(c, Messages, Histories, Moods)
    \/ \E c \in DOMAIN calls : GenerateChatTitle(c, Messages)
    \/ \E c \in DOMAIN calls : RemoteCompletes(c, ReplyOutcomes, TitleOutcomes)
    \/ \E c \in DOMAIN calls : ResumeGenerateResponse(c)
    \/ \E c \in DOMAIN calls : ResumeGenerateChatTitle(c)

Spec == Init /\ [][Next]_vars

\* NumCalls calls in flight on the one instance, over the smaller input sets
InitConc ==
    /\ environ \in Environments
    /\ service = Unloaded
    /\ calls = [c \in 1..NumCalls |-> IdleCall]

NextConc ==
    \/ Construct
    \/ \E c \in DOMAIN calls : GenerateResponse(c, {<<"H", "i">>}, ConcHistories, ConcMoods)
    \/ \E c \in DOMAIN calls : GenerateChatTitle(c, {<<"H", "i">>})
    \/ \E c \in DOMAIN calls : RemoteCompletes(c, ConcReplyOutcomes, ConcTitleOutcomes)
    \/ \E c \in DOMAIN calls : ResumeGenerateResponse(c)
    \/ \E c \in DOMAIN calls : ResumeGenerateChatTitle(c)

SpecConc == InitConc /\ [][NextConc]_vars

----------------------------------------------------------------------------
(* Vocabulary of the properties                                            *)

IsPrefix(p, s) == Len(p) <= Len(s) /\ SubSeq(s, 1, Len(p)) = p
IsSuffix(p, s) == Len(p) <= Len(s) /\ SubSeq(s, Len(s) - Len(p) + 1, Len(s)) = p
IsInfix(p, s) == \E i \in 0..(Len(s) - Len(p)) : SubSeq(s, i + 1, i + Len(p)) = p

Replies == {c \in DOMAIN calls : calls[c].op = "reply"}
Titles == {c \in DOMAIN calls : calls[c].op = "title"}

RecognizedMoods == {"default", "funny", "roasting", "precise", "intellectual"}

\* the remote call did not deliver a readable response
RemoteFailed(response) == response.kind \in {"raise", "blocked"}
\* the remote call delivered a response whose text is empty or missing
RemoteEmpty(response) ==
    response.kind = "none" \/ (response.kind = "text" /\ response.text = <<>>)

HistoryHeader ==
    <<"C", "o", "n", "v", "e", "r", "s", "a", "t", "i", "o", "n", " ",
      "h", "i", "s", "t", "o", "r", "y", ":", "\n">>
UserPrefix == <<"U", "s", "e", "r", ":", " ">>
AssistantPrefix == <<"A", "s", "s", "i", "s", "t", "a", "n", "t", ":", " ">>
AssistantSuffix == <<"\n", "A", "s", "s", "i", "s", "t", "a", "n", "t", ":">>

----------------------------------------------------------------------------
\* C1: generate_response never ends with an exception, and a generate_response
\* whose remote call failed (it raised, or its response cannot be read) returns
\* exactly the error apology; once the failure is in, nothing keeps the
\* coroutine from returning.
C1_ErrorBecomesApology ==
    \A c \in Replies :
        /\ calls[c].pc # "raised"
        /\ calls[c].raised = "none"
        /\ calls[c].pc = "awaiting" /\ RemoteFailed(calls[c].future)
              => ENABLED ResumeGenerateResponse(c)
        /\ calls[c].pc = "done" /\ RemoteFailed(calls[c].response)
              => calls[c].result = ErrorFallback

C1_Witness ==
    \E c \in Replies :
        /\ calls[c].pc = "done"
        /\ calls[c].response.kind = "raise"
        /\ calls[c].result = ErrorFallback

\* C2: a generate_response whose remote call came back with empty, missing or
\* filtered text returns exactly the empty-text apology, never the error
\* apology, and does not raise; with non-empty text it returns the text
\* stripped of leading and trailing whitespace.
C2_EmptyBecomesApology ==
    \A c \in Replies :
        calls[c].pc \in {"done", "raised"} =>
            /\ calls[c].raised = "none"
            /\ RemoteEmpty(calls[c].response) \/ calls[c].response.kind = "blocked"
                  => calls[c].result = EmptyFallback
            /\ calls[c].response.kind = "text" /\ calls[c].response.text # <<>>
                  => calls[c].result = Strip(calls[c].response.text)

\* C3: the rendered context is the concatenation, in order, of one line per
\* entry of the last min(N, 10) entries of the history, "User: <content>\n"
\* for a user entry and "Assistant: <content>\n" otherwise; earlier entries
\* contribute nothing.
C3_Line(entry) ==
    (IF "is_user_message" \in DOMAIN entry /\ entry.is_user_message
     THEN UserPrefix ELSE AssistantPrefix)
        \o (IF "content" \in DOMAIN entry THEN entry.content ELSE <<>>)
        \o <<"\n">>

RECURSIVE C3_Lines(_, _, _)
C3_Lines(turns, from, to) ==
    IF from > to THEN <<>>
    ELSE C3_Lines(turns, from, to - 1) \o C3_Line(turns[to])

C3_Kept(n) == IF n < 10 THEN n ELSE 10

C3_ContextIsLastTen ==
    \A c \in Replies :
        LET turns == calls[c].history.turns
            n == Len(turns)
        IN  /\ calls[c].context = C3_Lines(turns, n - C3_Kept(n) + 1, n)
            /\ Cardinality({i \in 1..Len(calls[c].context) : calls[c].context[i] = "\n"})
                  = C3_Kept(n)
            /\ calls[c].history = HistoryAB
                  => calls[c].context =
                        <<"U", "s", "e", "r", ":", " ", "A", "\n",
                          "A", "s", "s", "i", "s", "t", "a", "n", "t", ":", " ", "B", "\n">>

C3_Witness ==
    \E c \in Replies :
        /\ Len(calls[c].history.turns) > 10
        /\ ~IsInfix(<<" ">> \o calls[c].history.turns[1].content \o <<"\n">>, calls[c].context)
        /\ IsSuffix(C3_Line(calls[c].history.turns[Len(calls[c].history.turns)]),
                    calls[c].context)

\* C4 as stated: the prompt is the system prompt, a blank line, then (only with
\* a non-empty context) "Conversation history:\n" and the context, then
\* immediately "User: <message>\nAssistant:".
C4_PromptAsStated ==
    \A c \in Replies :
        calls[c].prompt =
            system_prompt(calls[c].mood) \o <<"\n", "\n">>
                \o (IF calls[c].context # <<>> THEN HistoryHeader \o calls[c].context ELSE <<>>)
                \o UserPrefix \o calls[c].message \o AssistantSuffix

\* C4: the prompt dispatched to the remote call is the system prompt, a blank
\* line, then (only with a non-empty context) "Conversation history:\n", the
\* context and one more newline, then "User: <message>\nAssistant:"; without
\* history the prompt has no "Conversation history:" section.
C4_PromptLayout ==
    \A c \in Replies :
        /\ calls[c].requests = <<calls[c].prompt>>
        /\ calls[c].prompt =
              system_prompt(calls[c].mood) \o <<"\n", "\n">>
                  \o (IF calls[c].context # <<>>
                      THEN HistoryHeader \o calls[c].context \o <<"\n">>
                      ELSE <<>>)
                  \o UserPrefix \o calls[c].message \o AssistantSuffix
        /\ IsSuffix(UserPrefix \o calls[c].message \o AssistantSuffix, calls[c].prompt)
        /\ (~calls[c].history.given \/ calls[c].history.turns = <<>>)
              => ~IsInfix(HistoryHeader, calls[c].prompt)

C4_Witness ==
    \E c \in Replies :
        /\ calls[c].history = HistoryAB
        /\ calls[c].message = <<"H", "i">>
        /\ IsInfix(HistoryHeader \o calls[c].context \o <<"\n">> \o UserPrefix, calls[c].prompt)

\* C5: the prompt starts with the persona paragraph of the mood for each of the
\* five recognized moods, the five paragraphs being pairwise different; for any
\* other mood it starts with the default paragraph and the prompt dispatched is
\* the one mood = default gives.
C5_MoodSelectsPersona ==
    /\ \A m1, m2 \in RecognizedMoods : m1 # m2 => mood_prompts[m1] # mood_prompts[m2]
    /\ \A c \in Replies :
          /\ calls[c].mood \in RecognizedMoods
                => IsPrefix(mood_prompts[calls[c].mood] \o <<"\n", "\n">>, calls[c].prompt)
          /\ calls[c].mood \notin RecognizedMoods
                => /\ IsPrefix(mood_prompts["default"] \o <<"\n", "\n">>, calls[c].prompt)
                   /\ calls[c].requests =
                         <<full_prompt(calls[c].message, calls[c].history, "default")>>

C5_Witness ==
    \E c \in Replies :
        /\ calls[c].mood = "sad"
        /\ calls[c].pc = "done"
        /\ IsPrefix(mood_prompts["default"], calls[c].requests[1])

\* C6: for a non-empty remote text, generate_chat_title returns the text with
\* surrounding whitespace stripped, every ' and " removed, cut to its first 50
\* characters; the title is at most 50 long and holds neither ' nor ".
C6_Stripped(text) ==
    LET solid == {i \in 1..Len(text) : text[i] \notin {" ", "\n", "\t"}}
    IN  IF solid = {} THEN <<>>
        ELSE SubSeq(text,
                    CHOOSE i \in solid : \A j \in solid : i <= j,
                    CHOOSE i \in solid : \A j \in solid : j <= i)

C6_Unquoted(text) == SelectSeq(text, LAMBDA ch : ch \notin {"'", "\""})

C6_Cut(text) == [i \in 1..(IF Len(text) > 50 THEN 50 ELSE Len(text)) |-> text[i]]

C6_TitleNormalized ==
    \A c \in Titles :
        calls[c].pc = "done" /\ calls[c].response.kind = "text" /\ calls[c].response.text # <<>>
            => /\ calls[c].result = C6_Cut(C6_Unquoted(C6_Stripped(calls[c].response.text)))
               /\ Len(calls[c].result) <= 50
               /\ \A i \in 1..Len(calls[c].result) : calls[c].result[i] \notin {"'", "\""}

C6_Witness ==
    \E c \in Titles :
        /\ calls[c].pc = "done"
        /\ Len(calls[c].response.text) > 50
        /\ \E i \in 1..Len(calls[c].response.text) : calls[c].response.text[i] = "'"
        /\ Len(C6_Unquoted(C6_Stripped(calls[c].response.text))) > 50
        /\ Len(calls[c].result) = 50

\* C7: generate_chat_title never ends with an exception and never returns an
\* empty title; after a failed remote call or an empty result it returns
\* exactly "New Conversation".
C7_TitleNeverEmpty ==
    \A c \in Titles :
        /\ calls[c].pc # "raised"
        /\ calls[c].pc = "done"
              => /\ calls[c].result # <<>>
                 /\ RemoteFailed(calls[c].response) \/ RemoteEmpty(calls[c].response)
                       => calls[c].result = NewConversation

\* C8 as stated: construction fails, with nothing configured, exactly when the
\* credential is undefined or is the placeholder.
C8_FailsAsStated ==
    service.state # "unloaded" =>
        /\ service.state = "failed" <=> (~environ.defined \/ environ.value = Placeholder)
        /\ service.state = "failed" => ~service.configured /\ service.model_name = ""

\* C8: construction fails with a configuration error, before the client is
\* configured or the model handle created, exactly when the credential is
\* undefined, empty or the placeholder; otherwise it succeeds.
C8_FailsFast ==
    service.state # "unloaded" =>
        /\ service.state \in {"failed", "ready"}
        /\ service.state = "failed"
              <=> (~environ.defined \/ environ.value = "" \/ environ.value = Placeholder)
        /\ service.state = "failed"
              => /\ service.error \in {"UndefinedValueError", "ValueError"}
                 /\ ~service.configured
                 /\ service.model_name = ""
                 /\ \A c \in DOMAIN calls : calls[c].pc = "idle"
        /\ service.state = "ready"
              => service.error = "none" /\ service.configured /\ service.model_name # ""

C8_Witness ==
    /\ service.state = "failed"
    /\ environ.defined
    /\ environ.value = ""

\* C9: a call issues the remote call at most once; after a failed remote call
\* it returns its fallback with no further remote call.
C9_NoRetry ==
    \A c \in DOMAIN calls :
        /\ Len(calls[c].requests) <= 1
        /\ calls[c].pc = "done" /\ RemoteFailed(calls[c].response)
              => /\ Len(calls[c].requests) = 1
                 /\ calls[c].result =
                       (IF calls[c].op = "reply" THEN ErrorFallback ELSE NewConversation)

C9_Witness ==
    \E c \in DOMAIN calls :
        /\ calls[c].pc = "done"
        /\ calls[c].response.kind = "raise"
        /\ Len(calls[c].requests) = 1

\* C10: with several calls in flight on the one instance, the shared
\* configuration stays as constructed, a call that can resume is never held up
\* by the others, and each call dispatches the prompt of its own arguments and
\* returns what it returns when run alone on the outcome of its own request.
C10_AloneResult(call) ==
    IF call.op = "reply"
    THEN generate_response_except(generate_response_try(call.future))
    ELSE generate_chat_title_except(generate_chat_title_try(call.future))

C10_CallsIndependent ==
    /\ service.state = "ready" => service = Constructed(environ)
    /\ \A c \in DOMAIN calls :
          /\ calls[c].op = "reply"
                => calls[c].requests =
                      <<full_prompt(calls[c].message, calls[c].history, calls[c].mood)>>
          /\ calls[c].op = "title" => calls[c].requests = <<title_prompt(calls[c].message)>>
          /\ calls[c].pc = "awaiting" /\ calls[c].future # Pending
                => ENABLED (ResumeGenerateResponse(c) \/ ResumeGenerateChatTitle(c))
          /\ calls[c].pc \in {"done", "raised"}
                => /\ calls[c].response = calls[c].future
                   /\ calls[c].result = C10_AloneResult(calls[c]).result
                   /\ calls[c].raised = C10_AloneResult(calls[c]).raised

C10_Witness ==
    \E c, d \in DOMAIN calls :
        /\ c < d
        /\ calls[c].pc = "awaiting"
        /\ calls[c].future = Pending
        /\ calls[d].pc = "done"
        /\ calls[d].op = calls[c].op

====
